---------------------------- MODULE Spec2Model ----------------------------
(***************************************************************************)
(* Model of the Flexit cloud client (custom_components/pyFlexit/flexit.py). *)
(*                                                                         *)
(* One client object (class Flexit) is shared by the caller's coroutines   *)
(* (Tasks).  A public coroutine of the client runs in one step up to its   *)
(* first await of the network (the request is then in flight), and in one  *)
(* more step from the delivery of the response, of a transport failure or  *)
(* of the timeout to its return or raise.  Between the two, other tasks    *)
(* run and the date may change.                                            *)
(***************************************************************************)
EXTENDS Integers, Sequences, FiniteSets, TLC

(***************************************************************************)
(* Bounds of the model.                                                    *)
(***************************************************************************)
\* Days are counted from the day the client was constructed; the date stops
\* advancing at MaxDay.
MaxDay == 1
\* Number of requesting coroutines (set_token, update_*, set_*) the caller
\* starts in one behaviour.
MaxCalls == 2

\* The caller's coroutines that may use the one client at the same time
\* (slots: a coroutine that starts takes the first free one).
Tasks == {1, 2}

(***************************************************************************)
(* const.py: the data-point identifiers are opaque strings.                *)
(***************************************************************************)
VENTILATION_MODE_PATH == "VENTILATION_MODE_PATH"
VENTILATION_MODE_PUT_PATH == "VENTILATION_MODE_PUT_PATH"
OUTSIDE_AIR_TEMPERATURE_PATH == "OUTSIDE_AIR_TEMPERATURE_PATH"
SUPPLY_AIR_TEMPERATURE_PATH == "SUPPLY_AIR_TEMPERATURE_PATH"
EXTRACT_AIR_TEMPERATURE_PATH == "EXTRACT_AIR_TEMPERATURE_PATH"
EXHAUST_AIR_TEMPERATURE_PATH == "EXHAUST_AIR_TEMPERATURE_PATH"
HOME_AIR_TEMPERATURE_PATH == "HOME_AIR_TEMPERATURE_PATH"
AWAY_AIR_TEMPERATURE_PATH == "AWAY_AIR_TEMPERATURE_PATH"
FILTER_STATE_PATH == "FILTER_STATE_PATH"
FILTER_TIME_FOR_EXCHANGE_PATH == "FILTER_TIME_FOR_EXCHANGE_PATH"
ROOM_TEMPERATURE_PATH == "ROOM_TEMPERATURE_PATH"
ELECTRIC_HEATER_PATH == "ELECTRIC_HEATER_PATH"
APPLICATION_SOFTWARE_VERSION_PATH == "APPLICATION_SOFTWARE_VERSION_PATH"
DEVICE_DESCRIPTION_PATH == "DEVICE_DESCRIPTION_PATH"
MODEL_NAME_PATH == "MODEL_NAME_PATH"
MODEL_INFORMATION_PATH == "MODEL_INFORMATION_PATH"
SERIAL_NUMBER_PATH == "SERIAL_NUMBER_PATH"
FIRMWARE_REVISION_PATH == "FIRMWARE_REVISION_PATH"
OFFLINE_ONLINE_PATH == "OFFLINE_ONLINE_PATH"
SYSTEM_STATUS_PATH == "SYSTEM_STATUS_PATH"
LAST_RESTART_REASON_PATH == "LAST_RESTART_REASON_PATH"
TOKEN_PATH == "TOKEN_PATH"
DATAPOINTS_PATH == "DATAPOINTS_PATH"

VARIABLES
    today,              \* date.today(), in days since construction
    token,              \* self.token
    token_refreshdate,  \* self.token_refreshdate
    data,               \* self.data
    device_info,        \* self.device_info
    session,            \* self._session, self._close_session, whether the
                        \* session object has been closed, and how many
                        \* sessions the client has constructed
    task,               \* per task: the coroutine it runs, its position, the
                        \* request it waits for and how many requests it
                        \* has handed to the session
    posts,              \* number of POSTs (token requests) handed to the session so far
    calls,              \* number of requesting coroutines started so far
    last                \* the coroutine that ended in the step just taken, and how

vars == <<today, token, token_refreshdate, data, device_info, session, task, posts, calls, last>>

(***************************************************************************)
(* Values.                                                                 *)
(***************************************************************************)
\* The empty mapping (a dict with no key).
EmptyDict == [k \in {} |-> 0]

\* Faulty variant: the assignment replaces the dict by one with that key only.
DictSet_replacing(d, k, v) == [x \in {k} |-> v]

\* d[k] = v on a dict: the key is added or its value replaced.
DictSet(d, k, v) == [x \in (DOMAIN d) \cup {k} |-> IF x = k THEN v ELSE d[x]]

\* Tokens the token endpoint hands out.
AccessTokens == {"tokA", "tokB"}

\* Temperatures as the caller passes them (text), and float(temp) in tenths
\* of a degree.
TempTexts == {"21.0", "22.5"}

float(temp) ==
    CASE temp = "21.0" -> 210
      [] temp = "22.5" -> 225

\* Labels the caller passes to set_mode / set_heater_state.
ModeLabels == {"Home", "Away", "High", "Invalid"}
HeaterLabels == {"on", "off", "Maybe"}


(***************************************************************************)
(* Text.  A header value is a sequence of tokens, so that Python's         *)
(* substring test ("application/json" not in content_type) is computed.    *)
(***************************************************************************)
\* Python's `needle in hay` on text.
Contains(needle, hay) ==
    \E i \in 0..(Len(hay) - Len(needle)) :
        SubSeq(hay, i + 1, i + Len(needle)) = needle

ApplicationJson == <<"application", "/", "json">>

\* Content-Type values the server may declare.
JsonUtf8 == <<"application", "/", "json", ";", " charset=utf-8">>
TextHtml == <<"text", "/", "html">>

\* Response headers that declare the content type `ct`.
Header(ct) == [h \in {"Content-Type"} |-> ct]

(***************************************************************************)
(* Bodies the three endpoints answer with (decoded JSON objects), and a    *)
(* page that is no JSON.                                                   *)
(***************************************************************************)
HtmlBody == [html |-> "<html>Bad Gateway</html>"]
ChoicesBody == [choices |-> "/v1, /v2"]
ErrorBody == [message |-> "Access denied"]

TokenBodies ==
    { [access_token |-> t] : t \in AccessTokens } \cup { [error |-> "invalid_grant"] }

DataFull ==
    [p \in {VENTILATION_MODE_PATH, HOME_AIR_TEMPERATURE_PATH,
            AWAY_AIR_TEMPERATURE_PATH, ROOM_TEMPERATURE_PATH,
            ELECTRIC_HEATER_PATH} |->
        CASE p = VENTILATION_MODE_PATH -> "Away"
          [] p = HOME_AIR_TEMPERATURE_PATH -> 200
          [] p = AWAY_AIR_TEMPERATURE_PATH -> 180
          [] p = ROOM_TEMPERATURE_PATH -> 215
          [] p = ELECTRIC_HEATER_PATH -> "off"]

DataPartial == [p \in {ROOM_TEMPERATURE_PATH} |-> 220]

DataBodies == {DataFull, DataPartial}

DeviceFull ==
    [p \in {MODEL_NAME_PATH, SERIAL_NUMBER_PATH} |->
        CASE p = MODEL_NAME_PATH -> "Nordic S3"
          [] p = SERIAL_NUMBER_PATH -> "800131-000001"]

DevicePartial == [p \in {MODEL_NAME_PATH} |-> "Nordic S4"]

DeviceBodies == {DeviceFull, DevicePartial}

\* Answers to a PUT of the data point `key`: its status text is Success,
\* or something else, or only another point is reported, or the answer
\* holds no stateTexts at all.
WriteBodies(key) ==
    { [stateTexts |-> [k \in {key} |-> "Success"]],
      [stateTexts |-> [k \in {key} |-> "Failed"]],
      [stateTexts |-> [k \in {OFFLINE_ONLINE_PATH} |-> "Success"]],
      [error |-> "rejected"] }

(***************************************************************************)
(* models.py (FlexitInfo.format_dict, DeviceInfo.format_dict): the         *)
(* formatter names each data point present in the payload by its field.    *)
(***************************************************************************)
FieldName(path) ==
    CASE path = VENTILATION_MODE_PATH -> "ventilation_mode"
      [] path = OUTSIDE_AIR_TEMPERATURE_PATH -> "outside_air_temperature"
      [] path = SUPPLY_AIR_TEMPERATURE_PATH -> "supply_air_temperature"
      [] path = EXTRACT_AIR_TEMPERATURE_PATH -> "extract_air_temperature"
      [] path = EXHAUST_AIR_TEMPERATURE_PATH -> "exhaust_air_temperature"
      [] path = HOME_AIR_TEMPERATURE_PATH -> "home_air_temperature"
      [] path = AWAY_AIR_TEMPERATURE_PATH -> "away_air_temperature"
      [] path = FILTER_STATE_PATH -> "filter_state"
      [] path = FILTER_TIME_FOR_EXCHANGE_PATH -> "filter_time_for_exchange"
      [] path = ROOM_TEMPERATURE_PATH -> "room_temperature"
      [] path = ELECTRIC_HEATER_PATH -> "electric_heater"
      [] path = MODEL_NAME_PATH -> "model_name"
      [] path = SERIAL_NUMBER_PATH -> "serial_number"
      [] OTHER -> path

FlexitInfo_format_dict(response) ==
    [f \in { FieldName(p) : p \in DOMAIN response } |->
        response[CHOOSE p \in DOMAIN response : FieldName(p) = f]]

DeviceInfo_format_dict(response) ==
    [f \in { FieldName(p) : p \in DOMAIN response } |->
        response[CHOOSE p \in DOMAIN response : FieldName(p) = f]]

(***************************************************************************)
(* Request building.                                                       *)
(***************************************************************************)
get_token_body == <<"grant_type=password&username=", "username", "&password=", "password">>
TokenUrl == <<TOKEN_PATH>>

get_token_headers ==
    [h \in {"Accept", "Accept-Encoding", "Accept-Language", "Content-Type",
            "User-Agent", "Ocp-Apim-Subscription-Key"} |->
        CASE h = "Accept" -> <<"application/json">>
          [] h = "Accept-Encoding" -> <<"gzip, deflate, br">>
          [] h = "Accept-Language" -> <<"en-us">>
          [] h = "Content-Type" -> <<"application/json; charset=utf-8">>
          [] h = "User-Agent" -> <<"Flexit%20GO/2.0.6 CFNetwork/1128.0.1 Darwin/19.6.0">>
          [] h = "Ocp-Apim-Subscription-Key" -> <<"api_key">>]

\* Faulty variant: the bearer is built without the stored token.
get_headers_anonymous(tok) == DictSet(get_token_headers, "Authorization", <<"Bearer ", "">>)

\* headers['Authorization'] = "Bearer " + self.token
get_headers(tok) == DictSet(get_token_headers, "Authorization", <<"Bearer ", tok>>)

put_body(value) == <<"{\"Value\": \"", value, "\"}">>

\* urllib.parse.quote of a text (a sequence of tokens).
urllib_parse_quote(text) == <<"quote">> \o text

get_escaped_datapoints_url(id) == <<DATAPOINTS_PATH>> \o urllib_parse_quote(<<id>>)

\* str() of the integer codes of the switcher tables.
str(i) ==
    CASE i = 0 -> "0"
      [] i = 1 -> "1"
      [] i = 2 -> "2"
      [] i = 4 -> "4"

DataPoints ==
    << VENTILATION_MODE_PATH, OUTSIDE_AIR_TEMPERATURE_PATH,
       SUPPLY_AIR_TEMPERATURE_PATH, EXTRACT_AIR_TEMPERATURE_PATH,
       EXHAUST_AIR_TEMPERATURE_PATH, HOME_AIR_TEMPERATURE_PATH,
       AWAY_AIR_TEMPERATURE_PATH, FILTER_STATE_PATH,
       FILTER_TIME_FOR_EXCHANGE_PATH, ROOM_TEMPERATURE_PATH,
       ELECTRIC_HEATER_PATH >>

DeviceInfoPoints ==
    << APPLICATION_SOFTWARE_VERSION_PATH, DEVICE_DESCRIPTION_PATH,
       MODEL_NAME_PATH, MODEL_INFORMATION_PATH, SERIAL_NUMBER_PATH,
       FIRMWARE_REVISION_PATH, OFFLINE_ONLINE_PATH, SYSTEM_STATUS_PATH,
       LAST_RESTART_REASON_PATH >>

\* filterPath + urllib.parse.quote(pathVariables)
filter_url(points) == <<"/DataPoints/Values?filterId=">> \o urllib_parse_quote(points)

\* The request _post_request / _put_request / _get_request hand to the
\* session: POST carries the token headers, PUT and GET the bearer headers.
NoRequest == [method |-> "none"]

\* Faulty variant: every request carries the bearer headers.
build_request_bearer(method, url, body, tok) ==
    [method |-> method, url |-> url, data |-> body, headers |-> get_headers(tok)]

build_request(method, url, body, tok) ==
    IF method = "POST"
    THEN [method |-> "POST", url |-> url, data |-> body, headers |-> get_token_headers]
    ELSE IF method = "PUT"
    THEN [method |-> "PUT", url |-> url, data |-> body, headers |-> get_headers(tok)]
    ELSE [method |-> "GET", url |-> url, data |-> <<>>, headers |-> get_headers(tok)]

(***************************************************************************)
(* _generic_request.                                                       *)
(***************************************************************************)
\* Faulty variant: a session that was closed is replaced by a new one.
ensure_session_reopen(s) ==
    IF s.obj = "None" \/ s.closed
    THEN [obj |-> "own", close_session |-> TRUE, closed |-> FALSE,
          created |-> s.created + 1]
    ELSE s

\* if self._session is None: create one, and remember to close it.
ensure_session(s) ==
    IF s.obj = "None"
    THEN [obj |-> "own", close_session |-> TRUE, closed |-> FALSE,
          created |-> s.created + 1]
    ELSE s

\* Faulty variant: the status of the response is not looked at.
raises_for_status_never(status) == FALSE

\* response.raise_for_status(): raises at a status of 400 or above.
raises_for_status(status) == status >= 400

\* response.headers.get("Content-Type", "")
content_type_of(response) ==
    IF "Content-Type" \in DOMAIN response.headers
    THEN response.headers["Content-Type"]
    ELSE <<>>

TimeoutMessage == "Timeout occurred while connecting to Flexit device"
CommunicationMessage == "Error occurred while communicating with Flexit device"
UnexpectedMessage == "Unexpected response from the Flexit device"

\* What the network hands to a waiting _generic_request: the timeout, a
\* client error (aiohttp.ClientError, socket.gaierror), or a response.
TimeoutReply == [kind |-> "TimeoutError"]
ClientErrorReply == [kind |-> "ClientError"]

\* Status 200 comes with one of the endpoint's JSON bodies declared as
\* JSON, or with a page declared as text/html or not declared at all;
\* status 300 Multiple Choices (a 3xx status the HTTP library does not
\* follow, as it follows 301, 302, 303, 307 and 308 only) with the list of
\* choices, declared as JSON or as text/html; status 401 Unauthorized with
\* the error document, declared as JSON or as text/html.
ResponseReplies(bodies) ==
    { [kind |-> "response", status |-> 200, headers |-> Header(JsonUtf8), body |-> b] :
        b \in bodies }
    \cup
    { [kind |-> "response", status |-> 200, headers |-> h, body |-> HtmlBody] :
        h \in {Header(TextHtml), EmptyDict} }
    \cup
    { [kind |-> "response", status |-> 300, headers |-> Header(ct), body |-> ChoicesBody] :
        ct \in {ApplicationJson, TextHtml} }
    \cup
    { [kind |-> "response", status |-> 401, headers |-> Header(ct), body |-> ErrorBody] :
        ct \in {JsonUtf8, TextHtml} }

\* The result of _generic_request for a reply: the decoded JSON, or the
\* error it raises.
generic_request_result(reply) ==
    IF reply.kind = "TimeoutError"
    THEN [kind |-> "FlexitConnectionError", info |-> [message |-> TimeoutMessage]]
    ELSE IF reply.kind = "ClientError" \/ raises_for_status(reply.status)
    THEN [kind |-> "FlexitConnectionError", info |-> [message |-> CommunicationMessage]]
    ELSE IF ~Contains(ApplicationJson, content_type_of(reply))
    THEN [kind |-> "FlexitError",
          info |-> [message |-> UnexpectedMessage,
                    content_type |-> content_type_of(reply),
                    response |-> reply.body]]
    ELSE [kind |-> "json", info |-> reply.body]

(***************************************************************************)
(* Tasks.                                                                  *)
(***************************************************************************)
Returned == [kind |-> "returned", info |-> [message |-> "None"]]
KeyError(key) == [kind |-> "KeyError", info |-> [message |-> key]]
RuntimeError == [kind |-> "RuntimeError", info |-> [message |-> "Session is closed"]]

\* A task that runs no coroutine of the client.
IdleTask == [pc |-> "idle", op |-> "none", arg |-> "", req |-> NoRequest, sent |-> 0]

\* The coroutine `op` of task p ends: it returns, or raises `out`, which
\* the caller gets.  `reply` is what the network handed to it (NoReply when
\* it did not wait for the network).
NoReply == [kind |-> "none"]

\* No coroutine ended in the step just taken.
NoCall == [op |-> "none", out |-> [kind |-> "none", info |-> [message |-> "None"]],
           reply |-> NoReply, data_before |-> EmptyDict]

Finish(p, op, out, reply) ==
    /\ task' = [task EXCEPT ![p] = IdleTask]
    /\ last' = [op |-> op, out |-> out, reply |-> reply, data_before |-> data]

\* Task p's coroutine `op` calls _generic_request: the session is created
\* when there is none, and the request is handed to it.  A closed session
\* refuses it (RuntimeError, which _generic_request does not catch);
\* otherwise the coroutine waits for the reply.
generic_request(p, op, arg, method, url, body) ==
    /\ session' = ensure_session(session)
    /\ IF session'.closed
       THEN Finish(p, op, RuntimeError, NoReply)
       ELSE /\ task' = [task EXCEPT ![p] =
                  [pc |-> "awaiting", op |-> op, arg |-> arg,
                   req |-> build_request(method, url, body, token),
                   sent |-> 1]]
            /\ last' = NoCall
    /\ posts' = IF method = "POST" THEN posts + 1 ELSE posts

\* What the network may resume a waiting _generic_request with: a client
\* error, or a response.
Replies(bodies) == {ClientErrorReply} \cup ResponseReplies(bodies)

Idle(p) == task[p].pc = "idle"

\* Task p is the slot a coroutine started now runs in.
Free(p) == Idle(p) /\ \A q \in Tasks : q < p => ~Idle(q)
Waiting(p, op) == task[p].pc = "awaiting" /\ task[p].op = op

(***************************************************************************)
(* Credential: set_token.                                                  *)
(***************************************************************************)
\* Faulty variant: the token is requested on every call.
token_due_always(refreshdate, day) == TRUE

\* Faulty variant: no token is requested while a token request is in flight.
token_due_coalesced(refreshdate, day) ==
    refreshdate = day /\ \A q \in Tasks : ~Waiting(q, "set_token")

\* if self.token_refreshdate == date.today():
token_due(refreshdate, day) == refreshdate = day

\* Faulty variant: the refresh date is not moved to the next day.
next_refreshdate_same_day(day) == day

\* date.today() + timedelta(days = 1)
next_refreshdate(day) == day + 1

\* set_token up to the await of token_request.
set_token(p) ==
    /\ Free(p)
    /\ calls < MaxCalls
    /\ calls' = calls + 1
    /\ IF token_due(token_refreshdate, today)
       THEN generic_request(p, "set_token", "", "POST", TokenUrl, get_token_body)
       ELSE /\ Finish(p, "set_token", Returned, NoReply)
            /\ UNCHANGED <<session, posts>>
    /\ UNCHANGED <<today, token, token_refreshdate, data, device_info>>

\* Faulty variant: the refresh date is moved before the token is read from
\* the response.
set_token_reply_date_first(p) ==
    /\ Waiting(p, "set_token")
    /\ \E reply \in Replies(TokenBodies) :
         LET response == generic_request_result(reply) IN
         IF response.kind # "json"
         THEN /\ Finish(p, "set_token", response, reply)
              /\ UNCHANGED <<token, token_refreshdate>>
         ELSE IF "access_token" \notin DOMAIN response.info
         THEN /\ Finish(p, "set_token", KeyError("access_token"), reply)
              /\ token_refreshdate' = next_refreshdate(today)
              /\ UNCHANGED token
         ELSE /\ token' = response.info["access_token"]
              /\ token_refreshdate' = next_refreshdate(today)
              /\ Finish(p, "set_token", Returned, reply)
    /\ UNCHANGED <<today, data, device_info, session, posts, calls>>

\* set_token from the reply on: the token and its refresh date are stored.
set_token_reply(p) ==
    /\ Waiting(p, "set_token")
    /\ \E reply \in Replies(TokenBodies) :
         LET response == generic_request_result(reply) IN
         IF response.kind # "json"
         THEN /\ Finish(p, "set_token", response, reply)
              /\ UNCHANGED <<token, token_refreshdate>>
         ELSE IF "access_token" \notin DOMAIN response.info
         THEN /\ Finish(p, "set_token", KeyError("access_token"), reply)
              /\ UNCHANGED <<token, token_refreshdate>>
         ELSE /\ token' = response.info["access_token"]
              /\ token_refreshdate' = next_refreshdate(today)
              /\ Finish(p, "set_token", Returned, reply)
    /\ UNCHANGED <<today, data, device_info, session, posts, calls>>

(***************************************************************************)
(* Read pipeline: update_data, update_device_info.                         *)
(***************************************************************************)
\* Faulty variant: the formatted payload is merged into the cached mapping.
read_data_merged(old, response) ==
    LET new == FlexitInfo_format_dict(response) IN
    [f \in (DOMAIN old) \cup (DOMAIN new) |-> IF f \in DOMAIN new THEN new[f] ELSE old[f]]

\* Faulty variant: a cache that holds fields is not overwritten by a read.
read_data_once(old, response) ==
    IF old = EmptyDict THEN FlexitInfo_format_dict(response) ELSE old

\* self.data = FlexitInfo.format_dict( response )
read_data(old, response) == FlexitInfo_format_dict(response)

\* self.device_info = DeviceInfo.format_dict( response )
read_device_info(old, response) == DeviceInfo_format_dict(response)

update_data(p) ==
    /\ Free(p)
    /\ calls < MaxCalls
    /\ calls' = calls + 1
    /\ generic_request(p, "update_data", "", "GET", filter_url(DataPoints), <<>>)
    /\ UNCHANGED <<today, token, token_refreshdate, data, device_info>>

update_data_reply(p) ==
    /\ Waiting(p, "update_data")
    /\ \E reply \in Replies(DataBodies) :
         LET response == generic_request_result(reply) IN
         IF response.kind # "json"
         THEN /\ Finish(p, "update_data", response, reply)
              /\ UNCHANGED data
         ELSE /\ data' = read_data(data, response.info)
              /\ Finish(p, "update_data", Returned, reply)
    /\ UNCHANGED <<today, token, token_refreshdate, device_info, session, posts, calls>>

update_device_info(p) ==
    /\ Free(p)
    /\ calls < MaxCalls
    /\ calls' = calls + 1
    /\ generic_request(p, "update_device_info", "", "GET",
                       filter_url(DeviceInfoPoints), <<>>)
    /\ UNCHANGED <<today, token, token_refreshdate, data, device_info>>

update_device_info_reply(p) ==
    /\ Waiting(p, "update_device_info")
    /\ \E reply \in Replies(DeviceBodies) :
         LET response == generic_request_result(reply) IN
         IF response.kind # "json"
         THEN /\ Finish(p, "update_device_info", response, reply)
              /\ UNCHANGED device_info
         ELSE /\ device_info' = read_device_info(device_info, response.info)
              /\ Finish(p, "update_device_info", Returned, reply)
    /\ UNCHANGED <<today, token, token_refreshdate, data, session, posts, calls>>

(***************************************************************************)
(* Write pipeline: set_home_temp, set_away_temp, set_mode,                 *)
(* set_heater_state.                                                       *)
(***************************************************************************)
\* Faulty variant: an unknown label is taken for Home.
mode_switcher_default_home(mode) ==
    CASE mode = "Home" -> 0
      [] mode = "Away" -> 2
      [] mode = "High" -> 4
      [] OTHER -> 0

\* switcher = { "Home": 0, "Away": 2, "High": 4 }; switcher.get(mode, -1)
mode_switcher(mode) ==
    CASE mode = "Home" -> 0
      [] mode = "Away" -> 2
      [] mode = "High" -> 4
      [] OTHER -> -1

\* switcher = { "on": 1, "off": 0 }; switcher.get(state, -1)
state_switcher(state) ==
    CASE state = "on" -> 1
      [] state = "off" -> 0
      [] OTHER -> -1

\* response["stateTexts"][key] raises KeyError.
state_text_missing(response, key) ==
    \/ "stateTexts" \notin DOMAIN response
    \/ key \notin DOMAIN response["stateTexts"]

\* The key the KeyError of response["stateTexts"][key] names.
missing_key(response, key) ==
    IF "stateTexts" \notin DOMAIN response THEN "stateTexts" ELSE key

\* Faulty variant: any status text confirms the write.
write_confirmed_any(response, key) == TRUE

\* response["stateTexts"][key] == 'Success'
write_confirmed(response, key) == response["stateTexts"][key] = "Success"

\* Faulty variant: a write that failed in the dispatcher is sent again.
write_reply_retry(p, op, key, field, value) ==
    /\ \E reply \in Replies(WriteBodies(key)) :
         LET response == generic_request_result(reply) IN
         IF response.kind # "json"
         THEN /\ task' = [task EXCEPT ![p].sent = @ + 1]
              /\ last' = NoCall
              /\ UNCHANGED data
         ELSE IF state_text_missing(response.info, key)
         THEN /\ Finish(p, op, KeyError(missing_key(response.info, key)), reply)
              /\ UNCHANGED data
         ELSE /\ data' = IF write_confirmed(response.info, key)
                         THEN DictSet(data, field, value)
                         ELSE data
              /\ Finish(p, op, Returned, reply)
    /\ UNCHANGED <<today, token, token_refreshdate, device_info, session, posts, calls>>

\* A set_* coroutine from the reply on: the cached field is assigned when
\* the status text of its data point is Success.
write_reply(p, op, key, field, value) ==
    /\ \E reply \in Replies(WriteBodies(key)) :
         LET response == generic_request_result(reply) IN
         IF response.kind # "json"
         THEN /\ Finish(p, op, response, reply)
              /\ UNCHANGED data
         ELSE IF state_text_missing(response.info, key)
         THEN /\ Finish(p, op, KeyError(missing_key(response.info, key)), reply)
              /\ UNCHANGED data
         ELSE /\ data' = IF write_confirmed(response.info, key)
                         THEN DictSet(data, field, value)
                         ELSE data
              /\ Finish(p, op, Returned, reply)
    /\ UNCHANGED <<today, token, token_refreshdate, device_info, session, posts, calls>>

set_home_temp(p, temp) ==
    /\ Free(p)
    /\ calls < MaxCalls
    /\ calls' = calls + 1
    /\ generic_request(p, "set_home_temp", temp, "PUT",
                       get_escaped_datapoints_url(HOME_AIR_TEMPERATURE_PATH),
                       put_body(temp))
    /\ UNCHANGED <<today, token, token_refreshdate, data, device_info>>

set_home_temp_reply(p) ==
    /\ Waiting(p, "set_home_temp")
    /\ write_reply(p, "set_home_temp", HOME_AIR_TEMPERATURE_PATH,
                   "home_air_temperature", float(task[p].arg))

set_away_temp(p, temp) ==
    /\ Free(p)
    /\ calls < MaxCalls
    /\ calls' = calls + 1
    /\ generic_request(p, "set_away_temp", temp, "PUT",
                       get_escaped_datapoints_url(AWAY_AIR_TEMPERATURE_PATH),
                       put_body(temp))
    /\ UNCHANGED <<today, token, token_refreshdate, data, device_info>>

set_away_temp_reply(p) ==
    /\ Waiting(p, "set_away_temp")
    /\ write_reply(p, "set_away_temp", AWAY_AIR_TEMPERATURE_PATH,
                   "away_air_temperature", float(task[p].arg))

set_mode(p, mode) ==
    /\ Free(p)
    /\ calls < MaxCalls
    /\ calls' = calls + 1
    /\ IF mode_switcher(mode) = -1
       THEN /\ Finish(p, "set_mode", Returned, NoReply)
            /\ UNCHANGED <<session, posts>>
       ELSE generic_request(p, "set_mode", mode, "PUT",
                            get_escaped_datapoints_url(VENTILATION_MODE_PUT_PATH),
                            put_body(str(mode_switcher(mode))))
    /\ UNCHANGED <<today, token, token_refreshdate, data, device_info>>

set_mode_reply(p) ==
    /\ Waiting(p, "set_mode")
    /\ write_reply(p, "set_mode", VENTILATION_MODE_PUT_PATH,
                   "ventilation_mode", task[p].arg)

set_heater_state(p, state) ==
    /\ Free(p)
    /\ calls < MaxCalls
    /\ calls' = calls + 1
    /\ IF state_switcher(state) = -1
       THEN /\ Finish(p, "set_heater_state", Returned, NoReply)
            /\ UNCHANGED <<session, posts>>
       ELSE generic_request(p, "set_heater_state", state, "PUT",
                            get_escaped_datapoints_url(ELECTRIC_HEATER_PATH),
                            put_body(str(state_switcher(state))))
    /\ UNCHANGED <<today, token, token_refreshdate, data, device_info>>

set_heater_state_reply(p) ==
    /\ Waiting(p, "set_heater_state")
    /\ write_reply(p, "set_heater_state", ELECTRIC_HEATER_PATH,
                   "electric_heater", task[p].arg)

(***************************************************************************)
(* Session lifecycle: close (and __aexit__, which awaits close).           *)
(***************************************************************************)
\* Faulty variant: close releases whatever session the client holds.
close_session_unowned(s) ==
    IF s.obj # "None" THEN [s EXCEPT !.closed = TRUE] ELSE s

\* if self._session and self._close_session: await self._session.close()
close_session(s) ==
    IF s.obj # "None" /\ s.close_session THEN [s EXCEPT !.closed = TRUE] ELSE s

close(p) ==
    /\ Free(p)
    /\ session' = close_session(session)
    /\ Finish(p, "close", Returned, NoReply)
    /\ UNCHANGED <<today, token, token_refreshdate, data, device_info, posts, calls>>

\* Exceptions the body of `async with` may have ended with (exc_info).
ExcInfos == {"None", "FlexitConnectionError"}

\* __aexit__: the scoped exit awaits close(), whatever the body ended with,
\* and returns None, so that an exception of the body propagates.
aexit(p, exc_info) ==
    /\ Free(p)
    /\ session' = close_session(session)
    /\ Finish(p, "__aexit__", Returned, NoReply)
    /\ UNCHANGED <<today, token, token_refreshdate, data, device_info, posts, calls>>

(***************************************************************************)
(* The timeout of a request.                                               *)
(***************************************************************************)
\* Faulty variant: the timeout is reported as an unexpected response.
request_timeout_result_unexpected ==
    [kind |-> "FlexitError",
     info |-> [message |-> UnexpectedMessage, content_type |-> <<>>, response |-> HtmlBody]]

\* except asyncio.TimeoutError: raise FlexitConnectionError(...)
request_timeout_result == generic_request_result(TimeoutReply)

\* request_timeout seconds have passed without a response to task p's
\* request: async_timeout cancels the wait, _generic_request raises, and
\* the coroutine that called it (none of them catches) ends with the error.
request_timeout(p) ==
    /\ task[p].pc = "awaiting"
    /\ Finish(p, task[p].op, request_timeout_result, TimeoutReply)
    /\ UNCHANGED <<today, token, token_refreshdate, data, device_info, session, posts, calls>>

(***************************************************************************)
(* Environment: the calendar.                                              *)
(***************************************************************************)
\* Midnight: date.today() advances.
AdvanceDay ==
    /\ today < MaxDay
    /\ today' = today + 1
    /\ last' = NoCall
    /\ UNCHANGED <<token, token_refreshdate, data, device_info, session, task, posts, calls>>

(***************************************************************************)
(* The client after __init__, with or without a session of the caller.     *)
(***************************************************************************)
Init ==
    /\ today = 0
    /\ token = ""
    /\ token_refreshdate = today
    /\ data = EmptyDict
    /\ device_info = EmptyDict
    /\ session \in { [obj |-> o, close_session |-> FALSE, closed |-> FALSE,
                        created |-> 0] : o \in {"None", "supplied"} }
    /\ task = [p \in Tasks |-> IdleTask]
    /\ last = NoCall
    /\ posts = 0
    /\ calls = 0

Next ==
    \/ \E p \in Tasks : set_token(p)
    \/ \E p \in Tasks : set_token_reply(p)
    \/ \E p \in Tasks : update_data(p)
    \/ \E p \in Tasks : update_data_reply(p)
    \/ \E p \in Tasks : update_device_info(p)
    \/ \E p \in Tasks : update_device_info_reply(p)
    \/ \E p \in Tasks, temp \in TempTexts : set_home_temp(p, temp)
    \/ \E p \in Tasks : set_home_temp_reply(p)
    \/ \E p \in Tasks, temp \in TempTexts : set_away_temp(p, temp)
    \/ \E p \in Tasks : set_away_temp_reply(p)
    \/ \E p \in Tasks, mode \in ModeLabels : set_mode(p, mode)
    \/ \E p \in Tasks : set_mode_reply(p)
    \/ \E p \in Tasks, state \in HeaterLabels : set_heater_state(p, state)
    \/ \E p \in Tasks : set_heater_state_reply(p)
    \/ \E p \in Tasks : request_timeout(p)
    \/ \E p \in Tasks : close(p)
    \/ \E p \in Tasks, exc_info \in ExcInfos : aexit(p, exc_info)
    \/ AdvanceDay

Spec == Init /\ [][Next]_vars

(***************************************************************************)
(* The event loop fires the timer of every request that is not answered,   *)
(* whatever the network does.                                              *)
(***************************************************************************)
FairSpec == Spec /\ \A p \in Tasks : WF_vars(request_timeout(p))

(***************************************************************************)
(* Properties.                                                             *)
(***************************************************************************)
\* Task p's coroutine `op` ends in this step, resumed by the reply last'.reply.
ReplyStep(p, op) == Waiting(p, op) /\ task'[p].pc = "idle"

\* Task p starts waiting for the network in this step.
RequestStep(p) == task[p].pc = "idle" /\ task'[p].pc = "awaiting"

\* The reply is a response the dispatcher decodes: its status is below
\* 400 and it is declared as JSON.
IsDecoded(reply) ==
    /\ reply.kind = "response"
    /\ reply.status < 400
    /\ "Content-Type" \in DOMAIN reply.headers
    /\ Contains(ApplicationJson, reply.headers["Content-Type"])

\* The decoded write answer reports Success for the data point `key`.
ReportsSuccess(body, key) ==
    /\ "stateTexts" \in DOMAIN body
    /\ key \in DOMAIN body["stateTexts"]
    /\ body["stateTexts"][key] = "Success"

Credential == <<token, token_refreshdate>>
Cache == <<data, device_info>>

\* The four writes: coroutine, data point, cached field.
Writes ==
    { [op |-> "set_home_temp", key |-> HOME_AIR_TEMPERATURE_PATH,
       field |-> "home_air_temperature"],
      [op |-> "set_away_temp", key |-> AWAY_AIR_TEMPERATURE_PATH,
       field |-> "away_air_temperature"],
      [op |-> "set_mode", key |-> VENTILATION_MODE_PUT_PATH,
       field |-> "ventilation_mode"],
      [op |-> "set_heater_state", key |-> ELECTRIC_HEATER_PATH,
       field |-> "electric_heater"] }

\* The value a write caches: the float of the temperature, or the label.
WrittenValue(op, arg) ==
    IF op \in {"set_home_temp", "set_away_temp"} THEN float(arg) ELSE arg

\* C1: token refresh gating.  set_token called while token_refreshdate is
\* today issues exactly one POST (none when it resumes), and when it returns
\* normally the token is the access_token of the response and
\* token_refreshdate is the day after today; called while token_refreshdate
\* is later than today it issues no request and returns with token and
\* token_refreshdate unchanged.
C1_TokenRefreshGating ==
    [][\A p \in Tasks :
        /\ (set_token(p) /\ token_refreshdate = today) =>
              /\ posts' = posts + 1
              /\ \/ task'[p].pc = "awaiting" /\ task'[p].req.method = "POST"
                 \/ task'[p].pc = "idle" /\ last'.out.kind = "RuntimeError"
              /\ UNCHANGED Credential
        /\ (set_token(p) /\ token_refreshdate > today) =>
              /\ posts' = posts
              /\ task' = task
              /\ last'.out.kind = "returned" /\ last'.reply = NoReply
              /\ UNCHANGED Credential
        /\ ReplyStep(p, "set_token") =>
              /\ posts' = posts
              /\ last'.out.kind = "returned" =>
                    /\ IsDecoded(last'.reply)
                    /\ "access_token" \in DOMAIN last'.reply.body
                    /\ token' = last'.reply.body["access_token"]
                    /\ token_refreshdate' = today + 1
      ]_vars

\* C1 witness: a token acquired on the day after construction, the second
\* acquisition of the client.
C1_Witness ==
    /\ last.op = "set_token"
    /\ last.out.kind = "returned"
    /\ last.reply.kind = "response"
    /\ today = 1
    /\ posts = 2
    /\ token_refreshdate = 2
    /\ token = last.reply.body["access_token"]

\* C2: a refresh is triggered whenever the credential is due or overdue:
\* set_token called while token_refreshdate is on or before today issues a
\* token request.
C2_RefreshWhenOverdue ==
    [][\A p \in Tasks :
        (set_token(p) /\ token_refreshdate <= today) => posts' = posts + 1
      ]_vars

\* C3: every read and every write with a recognized value ensures the
\* credential before dispatching: no GET or PUT is in flight unless a token
\* request was issued before it.
C3_TokenEnsuredBeforeRequest ==
    \A p \in Tasks : task[p].req.method \in {"GET", "PUT"} => posts > 0

\* C4: write confirmation gating.  When a set_* coroutine resumes with a
\* decoded response, the cached field becomes the written value if the
\* stateTexts entry of its data point is exactly Success, and data is
\* unchanged for any other status text and when the entry is absent.
C4_WriteConfirmationGating ==
    [][\A p \in Tasks : \A w \in Writes :
        (ReplyStep(p, w.op) /\ IsDecoded(last'.reply)) =>
            data' = IF ReportsSuccess(last'.reply.body, w.key)
                    THEN DictSet(data, w.field, WrittenValue(w.op, task[p].arg))
                    ELSE data
      ]_vars

\* C4 witness: set_home_temp("22.5") was confirmed and cached as a float.
C4_Witness ==
    /\ last.op = "set_home_temp"
    /\ IsDecoded(last.reply)
    /\ ReportsSuccess(last.reply.body, HOME_AIR_TEMPERATURE_PATH)
    /\ "home_air_temperature" \in DOMAIN data
    /\ data["home_air_temperature"] = 225
    /\ data # last.data_before

\* C5: an unconfirmed write raises no error: a set_* coroutine that resumes
\* with a decoded response whose status map reports another status than
\* Success for its data point, or holds no entry for it, returns normally.
C5_UnconfirmedWriteReturns ==
    [][\A p \in Tasks : \A w \in Writes :
        (/\ ReplyStep(p, w.op)
         /\ IsDecoded(last'.reply)
         /\ "stateTexts" \in DOMAIN last'.reply.body
         /\ ~ReportsSuccess(last'.reply.body, w.key)) =>
            last'.out.kind = "returned"
      ]_vars

\* The step starts no request and changes nothing of the client.
NoOpReturn ==
    /\ last'.out.kind = "returned"
    /\ last'.reply = NoReply
    /\ task' = task
    /\ UNCHANGED <<data, device_info, token, token_refreshdate, session, posts>>

\* C6: unrecognized label no-op.  set_mode with a label outside
\* {Home, Away, High} and set_heater_state with a label outside {on, off}
\* return without error, issue no request and leave data, device_info,
\* token, token_refreshdate and the session unchanged.
C6_UnrecognizedLabelNoOp ==
    [][\A p \in Tasks :
        /\ \A mode \in ModeLabels \ {"Home", "Away", "High"} :
              set_mode(p, mode) => NoOpReturn
        /\ \A state \in HeaterLabels \ {"on", "off"} :
              set_heater_state(p, state) => NoOpReturn
      ]_vars

\* C6 witness: set_mode returned without a reply and without a session
\* having been created, on a client that already caches data.
C6_Witness ==
    /\ last.op = "set_mode"
    /\ last.out.kind = "returned"
    /\ last.reply = NoReply
    /\ data # EmptyDict
    /\ session.obj = "supplied"

\* C7: full-replace semantics.  A read that resumes with a decoded response
\* replaces the whole cached mapping by the formatter's result for that
\* response: a field cached before (by an earlier read or by a confirmed
\* write) that the result lacks is absent afterwards.
C7_FullReplace ==
    [][\A p \in Tasks :
        /\ (ReplyStep(p, "update_data") /\ IsDecoded(last'.reply)) =>
              /\ data' = FlexitInfo_format_dict(last'.reply.body)
              /\ \A f \in DOMAIN data :
                    f \notin DOMAIN FlexitInfo_format_dict(last'.reply.body)
                        => f \notin DOMAIN data'
        /\ (ReplyStep(p, "update_device_info") /\ IsDecoded(last'.reply)) =>
              /\ device_info' = DeviceInfo_format_dict(last'.reply.body)
              /\ \A f \in DOMAIN device_info :
                    f \notin DOMAIN DeviceInfo_format_dict(last'.reply.body)
                        => f \notin DOMAIN device_info'
      ]_vars

\* C7 witness: a read has just dropped the home temperature that a
\* confirmed write had cached (225 is no value a read reports).
C7_Witness ==
    /\ last.op = "update_data"
    /\ IsDecoded(last.reply)
    /\ "home_air_temperature" \in DOMAIN last.data_before
    /\ last.data_before["home_air_temperature"] = 225
    /\ "home_air_temperature" \notin DOMAIN data

C10_ContentTypeGuard ==
    LET r == last.reply
        json == /\ "Content-Type" \in DOMAIN r.headers
                /\ Contains(ApplicationJson, r.headers["Content-Type"])
    IN
    /\ (r.kind # "none" /\ last.out.kind \in {"returned", "KeyError"}) =>
          r.kind = "response" /\ r.status \in 200..299 /\ json
    /\ (r.kind = "response" /\ r.status \in 200..299 /\ ~json) =>
          /\ last.out.kind = "FlexitError"
          /\ last.out.info.content_type =
                (IF "Content-Type" \in DOMAIN r.headers
                 THEN r.headers["Content-Type"] ELSE <<>>)
          /\ last.out.info.response = r.body
    /\ (r.kind = "ClientError" \/ (r.kind = "response" /\ r.status \notin 200..299)) =>
          /\ last.out.kind = "FlexitConnectionError"
          /\ last.out.info.message = CommunicationMessage

\* C11: session ownership.  close() and the scoped exit (which awaits
\* close() whatever the body ended with) close the session if and only if
\* the client created it; a session the caller supplied is never closed
\* and never replaced by the client, and no other step closes a session.
C11_SessionOwnership ==
    /\ [](session.obj = "supplied" => ~session.closed /\ session.created = 0)
    /\ [][/\ session.obj = "supplied" => session'.obj = "supplied"
          /\ \A p \in Tasks :
                (close(p) \/ \E exc_info \in ExcInfos : aexit(p, exc_info)) =>
                    /\ session'.closed = (session.closed \/ session.obj = "own")
                    /\ session'.obj = session.obj
          /\ (session'.closed /\ ~session.closed) =>
                \E p \in Tasks :
                    close(p) \/ \E exc_info \in ExcInfos : aexit(p, exc_info)
        ]_vars

\* C11 witness: the scoped exit has closed the session the client created.
C11_Witness ==
    /\ last.op = "__aexit__"
    /\ session.obj = "own"
    /\ session.closed

\* C12: credential invariant.  A successful token acquisition leaves a
\* non-empty token; the token changes only when set_token stores the
\* access_token of a decoded token response, and a non-empty token never
\* becomes empty; so once an acquisition has succeeded, every GET and PUT
\* handed to the session carries a non-empty bearer token.
C12_CredentialInvariant ==
    [][/\ token # "" => token' # ""
       /\ token' # token =>
             \E p \in Tasks :
                 /\ ReplyStep(p, "set_token")
                 /\ IsDecoded(last'.reply)
                 /\ "access_token" \in DOMAIN last'.reply.body
                 /\ token' = last'.reply.body["access_token"]
       /\ \A p \in Tasks :
             /\ (ReplyStep(p, "set_token") /\ last'.out.kind = "returned") => token' # ""
             /\ (RequestStep(p) /\ token # "" /\ task'[p].req.method \in {"GET", "PUT"}) =>
                   /\ "Authorization" \in DOMAIN task'[p].req.headers
                   /\ task'[p].req.headers["Authorization"][1] = "Bearer "
                   /\ task'[p].req.headers["Authorization"][2] # ""
      ]_vars

\* C12 witness: after a successful acquisition a read is in flight that
\* carries the acquired token.
C12_Witness ==
    /\ token \in AccessTokens
    /\ \E p \in Tasks :
          /\ Waiting(p, "update_data")
          /\ task[p].req.headers["Authorization"] = <<"Bearer ", token>>

\* C13: after any return of set_token, token is non-empty if and only if
\* some acquisition has succeeded before, and token_refreshdate differs from
\* its construction-time value (day 0) only if some acquisition has
\* succeeded: the two are assigned together, by a successful acquisition
\* only.  (An acquisition has succeeded exactly when set_token has resumed
\* with a decoded response that holds an access_token.)
C13_TokenAndRefreshTogether ==
    /\ [](token = "" <=> token_refreshdate = 0)
    /\ [][LET succeeds ==
                \E p \in Tasks :
                    /\ ReplyStep(p, "set_token")
                    /\ IsDecoded(last'.reply)
                    /\ "access_token" \in DOMAIN last'.reply.body
          IN
          /\ succeeds => token' # "" /\ token_refreshdate' # 0
          /\ ~succeeds => UNCHANGED Credential
        ]_vars

\* C13 witness: set_token has returned without a request on a client whose
\* earlier acquisition succeeded.
C13_Witness ==
    /\ last.op = "set_token"
    /\ last.out.kind = "returned"
    /\ last.reply = NoReply
    /\ token # ""
    /\ token_refreshdate = 1

\* C14: token acquisition failure.  When set_token resumes with a decoded
\* token response that lacks access_token, it ends with an error (the
\* KeyError of the subscript), issues no further request, and leaves token
\* and token_refreshdate unchanged; a set_token call that directly follows
\* the failure while the refresh date is still today requests a token
\* again.
C14_AcquisitionFailure ==
    [][\A p \in Tasks :
        /\ (/\ ReplyStep(p, "set_token")
            /\ IsDecoded(last'.reply)
            /\ "access_token" \notin DOMAIN last'.reply.body) =>
                /\ last'.out = KeyError("access_token")
                /\ posts' = posts
                /\ \A q \in Tasks : task'[q].pc = "awaiting" => task'[q] = task[q]
                /\ UNCHANGED Credential
        /\ (/\ set_token(p)
            /\ last.op = "set_token"
            /\ last.out.kind = "KeyError"
            /\ token_refreshdate = today) =>
                /\ posts' = posts + 1
                /\ session'.closed \/ (task'[p].pc = "awaiting" /\ task'[p].req.method = "POST")
      ]_vars

\* C14 witness: the second acquisition of the day has failed for the
\* missing field as well, and the client still holds no token.
C14_Witness ==
    /\ last.op = "set_token"
    /\ last.out = KeyError("access_token")
    /\ posts = 2
    /\ today = 0
    /\ token = ""
    /\ token_refreshdate = today
    /\ \A p \in Tasks : task[p].pc = "idle"

\* The subscription-key headers: the table of get_token_headers, in which
\* the key is the api_key of the client and Authorization does not occur.
SubscriptionKeyHeaders(headers) ==
    /\ "Ocp-Apim-Subscription-Key" \in DOMAIN headers
    /\ headers["Ocp-Apim-Subscription-Key"] = <<"api_key">>
    /\ \A h \in {"Accept", "Accept-Encoding", "Accept-Language", "Content-Type",
                 "User-Agent"} : h \in DOMAIN headers

\* C15: header selection.  Every POST is handed to the session with the
\* subscription-key headers only, without Authorization; every GET and PUT
\* with the subscription-key headers plus Authorization: "Bearer " followed
\* by the token stored at the moment the request is issued.
C15_HeaderSelection ==
    [][\A p \in Tasks : RequestStep(p) =>
        LET req == task'[p].req IN
        /\ SubscriptionKeyHeaders(req.headers)
        /\ req.method = "POST" =>
              /\ "Authorization" \notin DOMAIN req.headers
              /\ Cardinality(DOMAIN req.headers) = 6
        /\ req.method \in {"GET", "PUT"} =>
              /\ "Authorization" \in DOMAIN req.headers
              /\ req.headers["Authorization"] = <<"Bearer ", token>>
              /\ Cardinality(DOMAIN req.headers) = 7
        /\ req.method = "POST" <=> task'[p].op = "set_token"
        /\ req.method = "GET" <=> task'[p].op \in {"update_data", "update_device_info"}
      ]_vars

\* C15 witness: the token request of the next day is in flight without
\* Authorization, although the client holds a token.
C15_Witness ==
    /\ token \in AccessTokens
    /\ today = 1
    /\ \E p \in Tasks :
          /\ Waiting(p, "set_token")
          /\ task[p].req.method = "POST"
          /\ "Authorization" \notin DOMAIN task[p].req.headers

\* C16: the session is created at most once.  Under every interleaving,
\* also after close(), the client constructs a session only in a step in
\* which it holds none, at most once in its life; the ownership flag
\* (_close_session) is set in that step only, and a client that was given a
\* session never constructs one.
C16_SessionCreatedOnce ==
    /\ [](session.created <= 1)
    /\ [](session.close_session <=> session.created = 1)
    /\ [][/\ session'.created # session.created =>
                /\ session.obj = "None"
                /\ session'.obj = "own"
                /\ session'.created = session.created + 1
                /\ session'.close_session /\ ~session.close_session
          /\ session.obj # "None" =>
                /\ session'.obj = session.obj
                /\ session'.created = session.created
                /\ session'.close_session = session.close_session
          /\ session.closed => session'.closed
        ]_vars

\* C16 witness: a read issued after close() was refused by the closed
\* session, and the client did not construct a second one.
C16_Witness ==
    /\ last.op = "update_data"
    /\ last.out = RuntimeError
    /\ session.obj = "own"
    /\ session.closed
    /\ session.created = 1

\* The method each coroutine hands to the dispatcher.
MethodOf(op) ==
    CASE op = "set_token" -> "POST"
      [] op \in {"update_data", "update_device_info"} -> "GET"
      [] OTHER -> "PUT"

\* Task p's call ends at once because the closed session refuses the
\* request.
Refused(p) == session'.closed /\ task'[p].pc = "idle" /\ last'.out = RuntimeError

\* Task p's call hands one request of method `method` to the session.
IssuesOne(p, method) ==
    \/ /\ task'[p].pc = "awaiting"
       /\ task'[p].sent = 1
       /\ task'[p].req.method = method
    \/ Refused(p)

\* C17: single attempt, no retry.  A coroutine hands at most one request to
\* the session: a waiting coroutine either keeps waiting for that request
\* or ends, whatever the reply, and never sends again; set_token issues at
\* most one POST (and POSTs come from set_token only), each read exactly one
\* GET and each write with a recognized value exactly one PUT.
C17_SingleAttempt ==
    [][/\ \A p \in Tasks :
            /\ task'[p].sent <= 1
            /\ task[p].pc = "awaiting" =>
                  \/ task'[p] = task[p]
                  \/ task'[p].pc = "idle" /\ last'.op = task[p].op
            /\ RequestStep(p) =>
                  /\ task'[p].sent = 1
                  /\ task'[p].req.method = MethodOf(task'[p].op)
            /\ set_token(p) => posts' \in {posts, posts + 1}
            /\ update_data(p) => IssuesOne(p, "GET")
            /\ update_device_info(p) => IssuesOne(p, "GET")
            /\ \A temp \in TempTexts :
                  /\ set_home_temp(p, temp) => IssuesOne(p, "PUT")
                  /\ set_away_temp(p, temp) => IssuesOne(p, "PUT")
            /\ \A mode \in {"Home", "Away", "High"} :
                  set_mode(p, mode) => IssuesOne(p, "PUT")
            /\ \A state \in {"on", "off"} :
                  set_heater_state(p, state) => IssuesOne(p, "PUT")
       /\ posts' # posts => \E p \in Tasks : set_token(p)
      ]_vars

\* C17 witness: a write whose request got an error status has ended with
\* the error after its one request, and nothing is in flight.
C17_Witness ==
    /\ last.op = "set_heater_state"
    /\ last.out.kind = "FlexitConnectionError"
    /\ last.reply.kind = "response"
    /\ calls = 1
    /\ \A p \in Tasks : task[p].pc = "idle" /\ task[p].sent = 0

\* Task p's write w is confirmed in this step.
ConfirmedWrite(p, w) ==
    /\ ReplyStep(p, w.op)
    /\ IsDecoded(last'.reply)
    /\ ReportsSuccess(last'.reply.body, w.key)

\* Task p's read `op` gets a decoded response in this step.
SuccessfulRead(p, op) == ReplyStep(p, op) /\ IsDecoded(last'.reply)

\* C18: frame of cache mutations.  A confirmed write sets the one field of
\* data that belongs to the operation and leaves every other field as it
\* was; data changes only in the step of a successful update_data or of a
\* confirmed write, device_info only in the step of a successful
\* update_device_info; token and token_refreshdate change in no step of a
\* read or a write, only where set_token stores an acquired token.
C18_CacheFrame ==
    [][/\ \A p \in Tasks : \A w \in Writes :
            ConfirmedWrite(p, w) =>
                /\ DOMAIN data' = DOMAIN data \cup {w.field}
                /\ data'[w.field] = WrittenValue(w.op, task[p].arg)
                /\ \A f \in DOMAIN data \ {w.field} : data'[f] = data[f]
                /\ device_info' = device_info
       /\ data' # data =>
            \E p \in Tasks :
                \/ SuccessfulRead(p, "update_data")
                \/ \E w \in Writes : ConfirmedWrite(p, w)
       /\ device_info' # device_info =>
            \E p \in Tasks : SuccessfulRead(p, "update_device_info")
       /\ Credential' # Credential =>
            \E p \in Tasks : ReplyStep(p, "set_token") /\ last'.out.kind = "returned"
      ]_vars

\* C18 witness: a confirmed set_away_temp has changed the away temperature
\* of a cache filled by a read, next to the mode the read reported.
C18_Witness ==
    /\ last.op = "set_away_temp"
    /\ IsDecoded(last.reply)
    /\ ReportsSuccess(last.reply.body, AWAY_AIR_TEMPERATURE_PATH)
    /\ DOMAIN last.data_before = DOMAIN data
    /\ "ventilation_mode" \in DOMAIN data
    /\ data["ventilation_mode"] = last.data_before["ventilation_mode"]
    /\ last.data_before["away_air_temperature"] = 180
    /\ data["away_air_temperature"] = 225

\* C19: no coalescing of concurrent token refreshes.  A set_token call made
\* while token_refreshdate is today and another set_token is waiting for its
\* response issues its own POST; each of the overlapping calls that resumes
\* with an acquired token stores it with the day after today, so that after
\* both have succeeded the token is the one of the response processed last.
C19_NoCoalescing ==
    /\ [][\A p \in Tasks :
            (/\ set_token(p)
             /\ token_refreshdate = today
             /\ \E q \in Tasks \ {p} : Waiting(q, "set_token")) =>
                /\ posts' = posts + 1
                /\ \/ Refused(p)
                   \/ /\ Waiting(p, "set_token")'
                      /\ task'[p].req.method = "POST"
                      /\ \E q \in Tasks \ {p} : Waiting(q, "set_token")'
         ]_vars
    /\ [](/\ last.op = "set_token"
          /\ last.out.kind = "returned"
          /\ last.reply # NoReply
          => /\ token = last.reply.body["access_token"]
             /\ token_refreshdate = today + 1)

\* C19 witness: of two overlapping token requests (two POSTs on the day of
\* construction) one has been answered and stored, and the other is still
\* in flight.
C19_Witness ==
    /\ last.op = "set_token"
    /\ last.out.kind = "returned"
    /\ last.reply # NoReply
    /\ posts = 2
    /\ today = 0
    /\ token_refreshdate = 1
    /\ \E q \in Tasks : Waiting(q, "set_token")

\* C20: overlapping read and write.  While update_data and a write are in
\* flight together, the response processed in a step decides data alone:
\* the read's decoded response replaces data by the formatter's result,
\* whatever a confirmed write has put there, and the write's confirmation
\* sets its field in the data of that moment; the other coroutine stays in
\* flight untouched, no step that issues a request touches the cache, and
\* each assignment happens in the one step that processes the decoded
\* response of its own coroutine.
C20_OverlappingReadWrite ==
    /\ [][\A p \in Tasks : \A q \in Tasks \ {p} : \A w \in Writes :
            /\ RequestStep(p) => UNCHANGED Cache
            /\ (SuccessfulRead(p, "update_data") /\ Waiting(q, w.op)) =>
                  /\ data' = FlexitInfo_format_dict(last'.reply.body)
                  /\ task'[q] = task[q]
            /\ (ConfirmedWrite(q, w) /\ Waiting(p, "update_data")) =>
                  /\ data' = DictSet(data, w.field, WrittenValue(w.op, task[q].arg))
                  /\ task'[p] = task[p]
         ]_vars
    /\ [](/\ last.op = "update_data"
          /\ IsDecoded(last.reply)
          => data = FlexitInfo_format_dict(last.reply.body))

\* C20 witness: the confirmation of set_home_temp("22.5") has been
\* processed while update_data is in flight; the read's response will
\* overwrite the value.
C20_Witness ==
    /\ last.op = "set_home_temp"
    /\ IsDecoded(last.reply)
    /\ ReportsSuccess(last.reply.body, HOME_AIR_TEMPERATURE_PATH)
    /\ data = DictSet(last.data_before, "home_air_temperature", 225)
    /\ \E p \in Tasks : Waiting(p, "update_data")

=============================================================================
